---- MODULE Spec2Model ----
(***************************************************************************)
(* Model of the attestation program                                        *)
(* (onchain/programs/attestation/src/lib.rs).                              *)
(*                                                                         *)
(* The record store holds the ProgramState singleton (PDA ["state"]) and   *)
(* one Attestation account per audit hash (PDA ["attestation", hash]).     *)
(* Every instruction is one atomic action: the account validation of its   *)
(* #[derive(Accounts)] struct, then the handler body, then the event.  A   *)
(* failed instruction leaves the store and the log untouched (the runtime  *)
(* discards the writes of a failed transaction, including an account that  *)
(* `init` had created).                                                    *)
(***************************************************************************)
EXTENDS Integers, Sequences, FiniteSets, TLC

VARIABLES state, attestations, events, clock, last, inflight

vars == <<state, attestations, events, clock, last, inflight>>

-----------------------------------------------------------------------------
(* Program constants and enumerations                                      *)

MAX_WALLETS == 10

Jurisdiction == {"US", "EU", "BR", "UK", "JP", "AU", "CA", "CH", "SG"}

AttestationType ==
    {"TaxCompliance", "AuditComplete", "ReportingComplete",
     "QuarterlyReview", "AnnualReview"}

AttestationStatus == {"Pending", "Active", "Expired", "Revoked"}

AttestationError ==
    {"Unauthorized", "InvalidStatusTransition", "AttestationNotActive",
     "AttestationExpired", "InvalidJurisdiction", "InvalidAttestationType",
     "InvalidWalletCount"}

-----------------------------------------------------------------------------
(* Bounds of the model                                                     *)

MaxClock == 1

(* Inputs the callers draw from *)
Keys == {"K1", "K2"}
Hashes == {1, 2}
WalletKeys == <<"W1", "W2", "W3">>
WalletsOfLen(n) == [i \in 1..n |-> WalletKeys[((i - 1) % Len(WalletKeys)) + 1]]
ClassUS ==
    [jurisdiction |-> "US", attestation_type |-> "TaxCompliance",
     tax_year |-> 2024, expires_at |-> 1]
ClassEU ==
    [jurisdiction |-> "EU", attestation_type |-> "AuditComplete",
     tax_year |-> 2025, expires_at |-> 0]
CreateInputs ==
    {[class |-> ClassUS, wallets |-> WalletsOfLen(0)],
     [class |-> ClassUS, wallets |-> WalletsOfLen(1)],
     [class |-> ClassEU, wallets |-> WalletsOfLen(MAX_WALLETS)],
     [class |-> ClassEU, wallets |-> WalletsOfLen(MAX_WALLETS + 1)]}

-----------------------------------------------------------------------------
(* Runtime: addresses, account errors                                      *)

Ok == "Ok"
AccountNotInitialized == "AccountNotInitialized"
AccountAlreadyInUse == "AccountAlreadyInUse"

StateSeed == "state"
StateBump == 255
AttestationPda(audit_hash) == <<"attestation", audit_hash>>
AttestationBump(audit_hash) == 255 - audit_hash

HasState == StateSeed \in DOMAIN state
ProgramState == state[StateSeed]
Exists(audit_hash) == audit_hash \in DOMAIN attestations

Failed(op, signer, target, err) ==
    /\ last' = [op |-> op, signer |-> signer, target |-> target, result |-> err]
    /\ UNCHANGED <<state, attestations, events, clock>>

Succeeded(op, signer, target) ==
    last' = [op |-> op, signer |-> signer, target |-> target, result |-> Ok]

-----------------------------------------------------------------------------
(* Lifecycle state machine                                                 *)

(* Variant: a revoked record may be re-activated. *)
is_valid_status_transition_reactivate(from, to) ==
    \/ (from = "Pending" /\ to = "Active")
    \/ (from = "Active" /\ to = "Expired")
    \/ (from = "Active" /\ to = "Revoked")
    \/ (from = "Pending" /\ to = "Revoked")
    \/ (from = "Revoked" /\ to = "Active")

(* Variant: an expired record may still be revoked. *)
is_valid_status_transition_revoke_expired(from, to) ==
    \/ (from = "Pending" /\ to = "Active")
    \/ (from = "Active" /\ to = "Expired")
    \/ (from = "Active" /\ to = "Revoked")
    \/ (from = "Pending" /\ to = "Revoked")
    \/ (from = "Expired" /\ to = "Revoked")

is_valid_status_transition(from, to) ==
    \/ (from = "Pending" /\ to = "Active")
    \/ (from = "Active" /\ to = "Expired")
    \/ (from = "Active" /\ to = "Revoked")
    \/ (from = "Pending" /\ to = "Revoked")

-----------------------------------------------------------------------------
(* Account validation of each instruction                                  *)

(* Variant: `state` declared init_if_needed, no existence check. *)
Initialize_if_needed(signer) == Ok

(* Initialize: `state` is init, so the slot must be free. *)
Initialize(signer) ==
    IF HasState THEN AccountAlreadyInUse ELSE Ok

(* Variant: `attestation` declared init_if_needed, no existence check. *)
CreateAttestation_if_needed(signer, audit_hash) ==
    IF ~HasState THEN AccountNotInitialized
    ELSE IF signer # ProgramState.authority THEN "Unauthorized"
    ELSE Ok

(* Variant: the authority constraint is missing. *)
CreateAttestation_no_constraint(signer, audit_hash) ==
    IF ~HasState THEN AccountNotInitialized
    ELSE IF Exists(audit_hash) THEN AccountAlreadyInUse
    ELSE Ok

(* CreateAttestation: `state` must exist; `attestation` is init, which the *)
(* framework runs before the constraints of the other accounts; then the   *)
(* authority constraint.                                                   *)
CreateAttestation(signer, audit_hash) ==
    IF ~HasState THEN AccountNotInitialized
    ELSE IF Exists(audit_hash) THEN AccountAlreadyInUse
    ELSE IF signer # ProgramState.authority THEN "Unauthorized"
    ELSE Ok

(* UpdateAttestation: `state` and `attestation` must exist (the address is *)
(* re-derived from the record's own audit_hash), then the authority        *)
(* constraint.                                                             *)
UpdateAttestation(signer, audit_hash) ==
    IF ~HasState THEN AccountNotInitialized
    ELSE IF ~Exists(audit_hash) THEN AccountNotInitialized
    ELSE IF signer # ProgramState.authority THEN "Unauthorized"
    ELSE Ok

-----------------------------------------------------------------------------
(* Handler bodies, as functions of the accounts they are given             *)

initialize_body(signer) ==
    [result |-> Ok,
     state |-> [authority |-> signer, attestation_count |-> 0,
                bump |-> StateBump],
     events |-> <<[kind |-> "ProgramInitialized", authority |-> signer]>>]

(* Variant: the emptiness test of the wallet list is missing. *)
create_attestation_body_no_empty_check(st, signer, now, class, audit_hash, wallets) ==
    IF ~(Len(wallets) <= MAX_WALLETS)
    THEN [result |-> "InvalidWalletCount"]
    ELSE [result |-> Ok,
          attestation |->
              [bump |-> AttestationBump(audit_hash),
               authority |-> signer,
               jurisdiction |-> class.jurisdiction,
               attestation_type |-> class.attestation_type,
               status |-> "Active",
               tax_year |-> class.tax_year,
               audit_hash |-> audit_hash,
               issued_at |-> now,
               expires_at |-> class.expires_at,
               revoked_at |-> 0,
               num_wallets |-> Len(wallets) % 256,
               wallets |-> wallets],
          state |-> [st EXCEPT !.attestation_count = @ + 1],
          events |->
              <<[kind |-> "AttestationCreated",
                 attestation |-> AttestationPda(audit_hash),
                 wallets |-> wallets,
                 jurisdiction |-> class.jurisdiction,
                 attestation_type |-> class.attestation_type,
                 tax_year |-> class.tax_year,
                 audit_hash |-> audit_hash,
                 issued_at |-> now,
                 expires_at |-> class.expires_at]>>]

(* Variant: the counter increment is missing. *)
create_attestation_body_no_count(st, signer, now, class, audit_hash, wallets) ==
    IF ~(Len(wallets) # 0 /\ Len(wallets) <= MAX_WALLETS)
    THEN [result |-> "InvalidWalletCount"]
    ELSE [result |-> Ok,
          attestation |->
              [bump |-> AttestationBump(audit_hash),
               authority |-> signer,
               jurisdiction |-> class.jurisdiction,
               attestation_type |-> class.attestation_type,
               status |-> "Active",
               tax_year |-> class.tax_year,
               audit_hash |-> audit_hash,
               issued_at |-> now,
               expires_at |-> class.expires_at,
               revoked_at |-> 0,
               num_wallets |-> Len(wallets) % 256,
               wallets |-> wallets],
          state |-> st,
          events |->
              <<[kind |-> "AttestationCreated",
                 attestation |-> AttestationPda(audit_hash),
                 wallets |-> wallets,
                 jurisdiction |-> class.jurisdiction,
                 attestation_type |-> class.attestation_type,
                 tax_year |-> class.tax_year,
                 audit_hash |-> audit_hash,
                 issued_at |-> now,
                 expires_at |-> class.expires_at]>>]

(* Variant: a new record starts in Pending. *)
create_attestation_body_pending(st, signer, now, class, audit_hash, wallets) ==
    IF ~(Len(wallets) # 0 /\ Len(wallets) <= MAX_WALLETS)
    THEN [result |-> "InvalidWalletCount"]
    ELSE [result |-> Ok,
          attestation |->
              [bump |-> AttestationBump(audit_hash),
               authority |-> signer,
               jurisdiction |-> class.jurisdiction,
               attestation_type |-> class.attestation_type,
               status |-> "Pending",
               tax_year |-> class.tax_year,
               audit_hash |-> audit_hash,
               issued_at |-> now,
               expires_at |-> class.expires_at,
               revoked_at |-> 0,
               num_wallets |-> Len(wallets) % 256,
               wallets |-> wallets],
          state |-> [st EXCEPT !.attestation_count = @ + 1],
          events |->
              <<[kind |-> "AttestationCreated",
                 attestation |-> AttestationPda(audit_hash),
                 wallets |-> wallets,
                 jurisdiction |-> class.jurisdiction,
                 attestation_type |-> class.attestation_type,
                 tax_year |-> class.tax_year,
                 audit_hash |-> audit_hash,
                 issued_at |-> now,
                 expires_at |-> class.expires_at]>>]

create_attestation_body(st, signer, now, class, audit_hash, wallets) ==
    IF ~(Len(wallets) # 0 /\ Len(wallets) <= MAX_WALLETS)
    THEN [result |-> "InvalidWalletCount"]
    ELSE [result |-> Ok,
          attestation |->
              [bump |-> AttestationBump(audit_hash),
               authority |-> signer,
               jurisdiction |-> class.jurisdiction,
               attestation_type |-> class.attestation_type,
               status |-> "Active",
               tax_year |-> class.tax_year,
               audit_hash |-> audit_hash,
               issued_at |-> now,
               expires_at |-> class.expires_at,
               revoked_at |-> 0,
               num_wallets |-> Len(wallets) % 256,
               wallets |-> wallets],
          state |-> [st EXCEPT !.attestation_count = @ + 1],
          events |->
              <<[kind |-> "AttestationCreated",
                 attestation |-> AttestationPda(audit_hash),
                 wallets |-> wallets,
                 jurisdiction |-> class.jurisdiction,
                 attestation_type |-> class.attestation_type,
                 tax_year |-> class.tax_year,
                 audit_hash |-> audit_hash,
                 issued_at |-> now,
                 expires_at |-> class.expires_at]>>]

(* Variant: revoked_at is not stamped on the generic path. *)
update_status_body_no_stamp(att, new_status, now) ==
    IF ~is_valid_status_transition(att.status, new_status)
    THEN [result |-> "InvalidStatusTransition"]
    ELSE [result |-> Ok,
          attestation |->
              [att EXCEPT !.status = new_status],
          events |->
              <<[kind |-> "StatusUpdated",
                 attestation |-> AttestationPda(att.audit_hash),
                 old_status |-> att.status,
                 new_status |-> new_status]>>]

(* Variant: expiring a record overwrites its expires_at. *)
update_status_body_sets_expiry(att, new_status, now) ==
    IF ~is_valid_status_transition(att.status, new_status)
    THEN [result |-> "InvalidStatusTransition"]
    ELSE [result |-> Ok,
          attestation |->
              [att EXCEPT !.status = new_status,
                          !.revoked_at =
                              IF new_status = "Revoked" THEN now ELSE @,
                          !.expires_at =
                              IF new_status = "Expired" THEN now ELSE @],
          events |->
              <<[kind |-> "StatusUpdated",
                 attestation |-> AttestationPda(att.audit_hash),
                 old_status |-> att.status,
                 new_status |-> new_status]>>]

update_status_body(att, new_status, now) ==
    IF ~is_valid_status_transition(att.status, new_status)
    THEN [result |-> "InvalidStatusTransition"]
    ELSE [result |-> Ok,
          attestation |->
              [att EXCEPT !.status = new_status,
                          !.revoked_at =
                              IF new_status = "Revoked" THEN now ELSE @],
          events |->
              <<[kind |-> "StatusUpdated",
                 attestation |-> AttestationPda(att.audit_hash),
                 old_status |-> att.status,
                 new_status |-> new_status]>>]

(* Variant: the guard only rejects records that are already revoked. *)
revoke_attestation_body_not_revoked(att, now) ==
    IF ~(att.status # "Revoked")
    THEN [result |-> "AttestationNotActive"]
    ELSE [result |-> Ok,
          attestation |->
              [att EXCEPT !.status = "Revoked", !.revoked_at = now],
          events |->
              <<[kind |-> "AttestationRevoked",
                 attestation |-> AttestationPda(att.audit_hash),
                 wallets |-> att.wallets,
                 revoked_at |-> now]>>]

(* Variant: the event reports revoked_at as read before the update. *)
revoke_attestation_body_stale_event(att, now) ==
    IF ~(att.status = "Active")
    THEN [result |-> "AttestationNotActive"]
    ELSE [result |-> Ok,
          attestation |->
              [att EXCEPT !.status = "Revoked", !.revoked_at = now],
          events |->
              <<[kind |-> "AttestationRevoked",
                 attestation |-> AttestationPda(att.audit_hash),
                 wallets |-> att.wallets,
                 revoked_at |-> att.revoked_at]>>]

(* Variant: a record past its expires_at can no longer be revoked. *)
revoke_attestation_body_checks_expiry(att, now) ==
    IF ~(att.status = "Active")
    THEN [result |-> "AttestationNotActive"]
    ELSE IF now > att.expires_at
    THEN [result |-> "AttestationExpired"]
    ELSE [result |-> Ok,
          attestation |->
              [att EXCEPT !.status = "Revoked", !.revoked_at = now],
          events |->
              <<[kind |-> "AttestationRevoked",
                 attestation |-> AttestationPda(att.audit_hash),
                 wallets |-> att.wallets,
                 revoked_at |-> now]>>]

revoke_attestation_body(att, now) ==
    IF ~(att.status = "Active")
    THEN [result |-> "AttestationNotActive"]
    ELSE [result |-> Ok,
          attestation |->
              [att EXCEPT !.status = "Revoked", !.revoked_at = now],
          events |->
              <<[kind |-> "AttestationRevoked",
                 attestation |-> AttestationPda(att.audit_hash),
                 wallets |-> att.wallets,
                 revoked_at |-> now]>>]

-----------------------------------------------------------------------------
(* Instructions                                                            *)

initialize(signer) ==
    LET chk == Initialize(signer) IN
    IF chk # Ok THEN Failed("initialize", signer, 0, chk)
    ELSE LET out == initialize_body(signer) IN
         /\ state' = (StateSeed :> out.state)
         /\ events' = events \o out.events
         /\ Succeeded("initialize", signer, 0)
         /\ UNCHANGED <<attestations, clock>>

(* Variant: the account that `init` allocated survives a rejection by the  *)
(* handler, zero-filled.                                                   *)
create_attestation_keeps_account(signer, class, audit_hash, wallets) ==
    LET chk == CreateAttestation(signer, audit_hash) IN
    IF chk # Ok THEN Failed("create_attestation", signer, audit_hash, chk)
    ELSE LET out == create_attestation_body(ProgramState, signer, clock,
                                            class, audit_hash, wallets) IN
         /\ attestations' =
                [k \in DOMAIN attestations \cup {audit_hash} |->
                    IF k # audit_hash THEN attestations[k]
                    ELSE IF out.result = Ok THEN out.attestation
                    ELSE [bump |-> 0, authority |-> "", jurisdiction |-> "US",
                          attestation_type |-> "TaxCompliance",
                          status |-> "Pending", tax_year |-> 0,
                          audit_hash |-> 0, issued_at |-> 0, expires_at |-> 0,
                          revoked_at |-> 0, num_wallets |-> 0,
                          wallets |-> <<>>]]
         /\ state' = IF out.result = Ok THEN (StateSeed :> out.state) ELSE state
         /\ events' = IF out.result = Ok THEN events \o out.events ELSE events
         /\ last' = [op |-> "create_attestation", signer |-> signer,
                     target |-> audit_hash, result |-> out.result]
         /\ UNCHANGED clock

create_attestation(signer, class, audit_hash, wallets) ==
    LET chk == CreateAttestation(signer, audit_hash) IN
    IF chk # Ok THEN Failed("create_attestation", signer, audit_hash, chk)
    ELSE LET out == create_attestation_body(ProgramState, signer, clock,
                                            class, audit_hash, wallets) IN
         IF out.result # Ok
         THEN Failed("create_attestation", signer, audit_hash, out.result)
         ELSE /\ attestations' =
                     [k \in DOMAIN attestations \cup {audit_hash} |->
                         IF k = audit_hash THEN out.attestation
                         ELSE attestations[k]]
              /\ state' = (StateSeed :> out.state)
              /\ events' = events \o out.events
              /\ Succeeded("create_attestation", signer, audit_hash)
              /\ UNCHANGED clock

update_status(signer, audit_hash, new_status) ==
    LET chk == UpdateAttestation(signer, audit_hash) IN
    IF chk # Ok THEN Failed("update_status", signer, audit_hash, chk)
    ELSE LET out == update_status_body(attestations[audit_hash],
                                       new_status, clock) IN
         IF out.result # Ok
         THEN Failed("update_status", signer, audit_hash, out.result)
         ELSE /\ attestations' =
                     [attestations EXCEPT ![audit_hash] = out.attestation]
              /\ events' = events \o out.events
              /\ Succeeded("update_status", signer, audit_hash)
              /\ UNCHANGED <<state, clock>>

revoke_attestation(signer, audit_hash) ==
    LET chk == UpdateAttestation(signer, audit_hash) IN
    IF chk # Ok THEN Failed("revoke_attestation", signer, audit_hash, chk)
    ELSE LET out == revoke_attestation_body(attestations[audit_hash], clock) IN
         IF out.result # Ok
         THEN Failed("revoke_attestation", signer, audit_hash, out.result)
         ELSE /\ attestations' =
                     [attestations EXCEPT ![audit_hash] = out.attestation]
              /\ events' = events \o out.events
              /\ Succeeded("revoke_attestation", signer, audit_hash)
              /\ UNCHANGED <<state, clock>>

(* The trusted clock of the runtime moves forward between instructions.    *)
Tick ==
    /\ clock < MaxClock
    /\ clock' = clock + 1
    /\ UNCHANGED <<state, attestations, events, last, inflight>>

-----------------------------------------------------------------------------
(* Transactions executing side by side                                     *)
(*                                                                         *)
(* The runtime locks the accounts a transaction names, writable ones       *)
(* exclusively, and runs side by side only transactions whose locks do not *)
(* conflict.  A transaction is loaded (locks taken, accounts validated,    *)
(* handler run on the loaded accounts) and later committed (its writable   *)
(* accounts written back, its events logged, its locks released).  A       *)
(* transaction that fails writes nothing and holds no lock afterwards.     *)

Slots == {1, 2}
Idle == [op |-> "idle"]

SignerKey(signer) == <<"key", signer>>

(* Variant: UpdateAttestation::attestation is declared without `mut`. *)
WriteLocks_attestation_not_mut(op, signer, audit_hash) ==
    CASE op = "initialize" -> {<<StateSeed>>, SignerKey(signer)}
      [] op = "create_attestation" ->
           {<<StateSeed>>, AttestationPda(audit_hash), SignerKey(signer)}
      [] OTHER -> {}

(* Accounts an instruction declares `init` or `mut`. *)
WriteLocks(op, signer, audit_hash) ==
    CASE op = "initialize" -> {<<StateSeed>>, SignerKey(signer)}
      [] op = "create_attestation" ->
           {<<StateSeed>>, AttestationPda(audit_hash), SignerKey(signer)}
      [] OTHER -> {AttestationPda(audit_hash)}

(* Accounts an instruction declares read-only. *)
ReadLocks(op, signer, audit_hash) ==
    CASE op \in {"update_status", "revoke_attestation"} ->
           {<<StateSeed>>, SignerKey(signer)}
      [] OTHER -> {}

Conflict(op, signer, audit_hash, t) ==
    LET w1 == WriteLocks(op, signer, audit_hash)
        r1 == ReadLocks(op, signer, audit_hash)
        w2 == WriteLocks(t.op, t.signer, t.target)
        r2 == ReadLocks(t.op, t.signer, t.target)
    IN (w1 \cap (w2 \cup r2)) \cup (w2 \cap r1) # {}

(* The transaction can take its locks and the lowest free slot is `slot`. *)
CanLoad(slot, op, signer, audit_hash) ==
    /\ inflight[slot] = Idle
    /\ \A s \in Slots :
          /\ s < slot => inflight[s] # Idle
          /\ inflight[s] # Idle => ~Conflict(op, signer, audit_hash, inflight[s])

Load(slot, op, signer, audit_hash, arg, chk, out) ==
    IF chk # Ok
    THEN Failed(op, signer, audit_hash, chk) /\ UNCHANGED inflight
    ELSE IF out.result # Ok
    THEN Failed(op, signer, audit_hash, out.result) /\ UNCHANGED inflight
    ELSE /\ inflight' =
               [inflight EXCEPT ![slot] =
                   [op |-> op, signer |-> signer, target |-> audit_hash,
                    arg |-> arg, out |-> out]]
         /\ UNCHANGED <<state, attestations, events, clock, last>>

LoadInitialize ==
    \E slot \in Slots, signer \in Keys :
        /\ CanLoad(slot, "initialize", signer, 0)
        /\ Load(slot, "initialize", signer, 0, 0, Initialize(signer),
                initialize_body(signer))

LoadCreateAttestation ==
    \E slot \in Slots, signer \in Keys, audit_hash \in Hashes,
       in \in CreateInputs :
        /\ CanLoad(slot, "create_attestation", signer, audit_hash)
        /\ LET chk == CreateAttestation(signer, audit_hash) IN
           Load(slot, "create_attestation", signer, audit_hash, in, chk,
                IF chk # Ok THEN [result |-> chk]
                ELSE create_attestation_body(ProgramState, signer, clock,
                                             in.class, audit_hash, in.wallets))

LoadUpdateStatus ==
    \E slot \in Slots, signer \in Keys, audit_hash \in Hashes,
       new_status \in AttestationStatus :
        /\ CanLoad(slot, "update_status", signer, audit_hash)
        /\ LET chk == UpdateAttestation(signer, audit_hash) IN
           Load(slot, "update_status", signer, audit_hash, new_status, chk,
                IF chk # Ok THEN [result |-> chk]
                ELSE update_status_body(attestations[audit_hash], new_status,
                                        clock))

LoadRevokeAttestation ==
    \E slot \in Slots, signer \in Keys, audit_hash \in Hashes :
        /\ CanLoad(slot, "revoke_attestation", signer, audit_hash)
        /\ LET chk == UpdateAttestation(signer, audit_hash) IN
           Load(slot, "revoke_attestation", signer, audit_hash, 0, chk,
                IF chk # Ok THEN [result |-> chk]
                ELSE revoke_attestation_body(attestations[audit_hash], clock))

Commit ==
    \E slot \in Slots :
        LET t == inflight[slot] IN
        /\ t # Idle
        /\ state' = IF t.op \in {"initialize", "create_attestation"}
                    THEN (StateSeed :> t.out.state) ELSE state
        /\ attestations' =
              IF t.op = "initialize" THEN attestations
              ELSE [k \in DOMAIN attestations \cup {t.target} |->
                       IF k = t.target THEN t.out.attestation
                       ELSE attestations[k]]
        /\ events' = events \o t.out.events
        /\ Succeeded(t.op, t.signer, t.target)
        /\ inflight' = [inflight EXCEPT ![slot] = Idle]
        /\ UNCHANGED clock

(* The clock sysvar is constant while a batch of transactions executes. *)
TickBetweenBatches ==
    /\ \A s \in Slots : inflight[s] = Idle
    /\ Tick

-----------------------------------------------------------------------------
(* Specification                                                           *)

Init ==
    /\ state = <<>>
    /\ attestations = <<>>
    /\ events = <<>>
    /\ clock \in 0..MaxClock
    /\ last = [op |-> "none", signer |-> "none", target |-> 0, result |-> Ok]
    /\ inflight = [s \in Slots |-> Idle]

DoInitialize ==
    /\ \E signer \in Keys : initialize(signer)
    /\ UNCHANGED inflight

DoCreateAttestation ==
    /\ \E signer \in Keys, audit_hash \in Hashes, in \in CreateInputs :
          create_attestation(signer, in.class, audit_hash, in.wallets)
    /\ UNCHANGED inflight

DoUpdateStatus ==
    /\ \E signer \in Keys, audit_hash \in Hashes,
          new_status \in AttestationStatus :
          update_status(signer, audit_hash, new_status)
    /\ UNCHANGED inflight

DoRevokeAttestation ==
    /\ \E signer \in Keys, audit_hash \in Hashes :
          revoke_attestation(signer, audit_hash)
    /\ UNCHANGED inflight

Next ==
    \/ DoInitialize
    \/ DoCreateAttestation
    \/ DoUpdateStatus
    \/ DoRevokeAttestation
    \/ Tick

Spec == Init /\ [][Next]_vars

RaceNext ==
    \/ LoadInitialize
    \/ LoadCreateAttestation
    \/ LoadUpdateStatus
    \/ LoadRevokeAttestation
    \/ Commit
    \/ TickBetweenBatches

SpecRace == Init /\ [][RaceNext]_vars

-----------------------------------------------------------------------------
(* Properties                                                              *)

Authorized(signer) == HasState /\ signer = ProgramState.authority

ValidTransitions ==
    {<<"Pending", "Active">>, <<"Active", "Expired">>,
     <<"Active", "Revoked">>, <<"Pending", "Revoked">>}

(* The spec's DuplicateRecord is the runtime's failure of `init` on an     *)
(* occupied address; AttestationError has no variant of that name.         *)
DuplicateRecord == AccountAlreadyInUse

(* A record as create_attestation writes it, with its status replaced.     *)
SampleAttestation(status) ==
    [create_attestation_body(initialize_body("K1").state, "K1", 1, ClassUS,
                             1, WalletsOfLen(2)).attestation
        EXCEPT !.status = status]

MaxWalletInput == MAX_WALLETS + 2

(* C1: an authorized updateStatus(to) on a record of status `from`         *)
(* succeeds iff (from, to) is one of the four table edges, and each of     *)
(* the other twelve pairs fails with InvalidStatusTransition.              *)
C1_UpdateStatusTable ==
    /\ [](\A from \in AttestationStatus, to \in AttestationStatus :
            LET out == update_status_body(SampleAttestation(from), to, clock) IN
            IF <<from, to>> \in ValidTransitions
            THEN out.result = Ok /\ out.attestation.status = to
            ELSE out.result = "InvalidStatusTransition")
    /\ [][\A to \in AttestationStatus :
            LET signer == last'.signer
                h == last'.target
            IN (/\ last'.op = "update_status"
                /\ Authorized(signer)
                /\ Exists(h)
                /\ update_status(signer, h, to)) =>
                   IF <<attestations[h].status, to>> \in ValidTransitions
                   THEN last'.result = Ok /\ attestations'[h].status = to
                   ELSE /\ last'.result = "InvalidStatusTransition"
                        /\ attestations' = attestations]_vars

C1_Witness ==
    /\ last.op = "update_status"
    /\ last.result = "InvalidStatusTransition"
    /\ Authorized(last.signer)
    /\ attestations[last.target].status = "Expired"

(* C2: an authorized revokeAttestation succeeds iff the status is Active;  *)
(* on Pending, Expired or Revoked it fails with AttestationNotActive.      *)
C2_RevokeOnlyActive ==
    /\ [](\A st \in AttestationStatus :
            LET out == revoke_attestation_body(SampleAttestation(st), clock) IN
            IF st = "Active"
            THEN out.result = Ok /\ out.attestation.status = "Revoked"
            ELSE out.result = "AttestationNotActive")
    /\ [][LET signer == last'.signer
              h == last'.target
          IN (/\ last'.op = "revoke_attestation"
              /\ Authorized(signer)
              /\ Exists(h)
              /\ revoke_attestation(signer, h)) =>
                 IF attestations[h].status = "Active"
                 THEN last'.result = Ok /\ attestations'[h].status = "Revoked"
                 ELSE /\ last'.result = "AttestationNotActive"
                      /\ attestations' = attestations]_vars

C2_Witness ==
    /\ last.op = "revoke_attestation"
    /\ last.result = "AttestationNotActive"
    /\ Authorized(last.signer)
    /\ attestations[last.target].status = "Revoked"
    /\ \E i \in 1..Len(events) :
          /\ events[i].kind = "AttestationRevoked"
          /\ events[i].attestation = AttestationPda(last.target)

(* C3: a createAttestation, updateStatus or revokeAttestation call signed  *)
(* by a key other than the current authority fails with Unauthorized and   *)
(* changes neither ProgramState, nor any record, nor the event log.        *)
C3_UnauthorizedRejected ==
    [][LET signer == last'.signer
           h == last'.target
       IN (/\ HasState
           /\ signer \in Keys
           /\ signer # ProgramState.authority
           /\ \/ /\ last'.op = "create_attestation"
                 /\ \E in \in CreateInputs :
                       create_attestation(signer, in.class, h, in.wallets)
              \/ /\ last'.op = "update_status"
                 /\ Exists(h)
                 /\ \E to \in AttestationStatus : update_status(signer, h, to)
              \/ /\ last'.op = "revoke_attestation"
                 /\ Exists(h)
                 /\ revoke_attestation(signer, h))
          => /\ last'.result = "Unauthorized"
             /\ UNCHANGED <<state, attestations, events>>]_vars

(* C4: createAttestation succeeds exactly once per auditHash: the log has  *)
(* one AttestationCreated per stored record and none otherwise, and an     *)
(* authorized create on a used auditHash fails with DuplicateRecord        *)
(* whatever its other fields are, leaving store and log unchanged.         *)
CreatedEvents(h) ==
    {i \in 1..Len(events) :
        events[i].kind = "AttestationCreated" /\ events[i].audit_hash = h}

C4_CreateOncePerHash ==
    /\ [](\A h \in Hashes :
            /\ Cardinality(CreatedEvents(h)) = (IF Exists(h) THEN 1 ELSE 0)
            /\ Exists(h) => attestations[h].audit_hash = h)
    /\ [][\A in \in CreateInputs :
            LET signer == last'.signer
                h == last'.target
            IN (/\ last'.op = "create_attestation"
                /\ Authorized(signer)
                /\ Exists(h)
                /\ create_attestation(signer, in.class, h, in.wallets))
               => /\ last'.result = DuplicateRecord
                  /\ UNCHANGED <<state, attestations, events>>]_vars

C4_Witness ==
    /\ last.op = "create_attestation"
    /\ last.result = DuplicateRecord
    /\ Authorized(last.signer)
    /\ Exists(last.target)
    /\ ProgramState.attestation_count = 1

(* C5: an authorized createAttestation on a free address fails with        *)
(* InvalidWalletCount for 0 or more than 10 wallets and succeeds for 1 to  *)
(* 10; every stored record has between 1 and 10 wallets.                   *)
ValidWalletCount(n) == 1 <= n /\ n <= 10

C5_WalletCount ==
    /\ [](/\ \A n \in 0..MaxWalletInput :
               create_attestation_body(initialize_body("K1").state, "K1", clock,
                                       ClassUS, 1, WalletsOfLen(n)).result
                 = (IF ValidWalletCount(n) THEN Ok ELSE "InvalidWalletCount")
           /\ \A h \in DOMAIN attestations :
               /\ ValidWalletCount(Len(attestations[h].wallets))
               /\ attestations[h].num_wallets = Len(attestations[h].wallets))
    /\ [][\A in \in CreateInputs :
            LET signer == last'.signer
                h == last'.target
            IN (/\ last'.op = "create_attestation"
                /\ Authorized(signer)
                /\ ~Exists(h)
                /\ create_attestation(signer, in.class, h, in.wallets))
               => IF ValidWalletCount(Len(in.wallets))
                  THEN /\ last'.result = Ok
                       /\ h \in DOMAIN attestations'
                       /\ attestations'[h].wallets = in.wallets
                  ELSE /\ last'.result = "InvalidWalletCount"
                       /\ UNCHANGED <<state, attestations, events>>]_vars

C5_Witness ==
    /\ last.op = "create_attestation"
    /\ last.result = Ok
    /\ Len(attestations[last.target].wallets) = MAX_WALLETS

(* C6: every successful initialize, createAttestation, updateStatus and    *)
(* revokeAttestation appends exactly one event, of the kind of that        *)
(* operation, whose fields equal the record as it is after the mutation;   *)
(* a failed call appends nothing.                                          *)
EventOf(op, st, old_att, att) ==
    CASE op = "initialize" ->
           [kind |-> "ProgramInitialized", authority |-> st.authority]
      [] op = "create_attestation" ->
           [kind |-> "AttestationCreated",
            attestation |-> AttestationPda(att.audit_hash),
            wallets |-> att.wallets,
            jurisdiction |-> att.jurisdiction,
            attestation_type |-> att.attestation_type,
            tax_year |-> att.tax_year,
            audit_hash |-> att.audit_hash,
            issued_at |-> att.issued_at,
            expires_at |-> att.expires_at]
      [] op = "update_status" ->
           [kind |-> "StatusUpdated",
            attestation |-> AttestationPda(att.audit_hash),
            old_status |-> old_att.status,
            new_status |-> att.status]
      [] op = "revoke_attestation" ->
           [kind |-> "AttestationRevoked",
            attestation |-> AttestationPda(att.audit_hash),
            wallets |-> att.wallets,
            revoked_at |-> att.revoked_at]

IsCall ==
    DoInitialize \/ DoCreateAttestation \/ DoUpdateStatus \/ DoRevokeAttestation

C6_OneEventPerMutation ==
    [][IF last'.result = Ok /\ clock' = clock /\ IsCall
       THEN LET op == last'.op
                h == last'.target
                old_att == IF Exists(h) THEN attestations[h] ELSE attestations'[h]
                att == IF op = "initialize" THEN <<>> ELSE attestations'[h]
            IN events' = Append(events, EventOf(op, ProgramState', old_att, att))
       ELSE events' = events]_vars

C6_Witness ==
    /\ last.op = "revoke_attestation"
    /\ last.result = Ok
    /\ events[Len(events)].kind = "AttestationRevoked"
    /\ events[Len(events)].revoked_at = attestations[last.target].revoked_at
    /\ events[Len(events)].revoked_at > attestations[last.target].issued_at

(* C7: revokedAt is 0 from creation until the first successful revocation  *)
(* (by revokeAttestation or updateStatus(Revoked)), is then set to the     *)
(* current clock value, and is never changed afterwards; no transition     *)
(* other than one entering Revoked touches it.                             *)
C7_RevokedAtStamp ==
    [][/\ \A h \in DOMAIN attestations :
            attestations[h].status # "Revoked" => attestations[h].revoked_at = 0
       /\ \A h \in DOMAIN attestations' :
            IF ~Exists(h)
            THEN attestations'[h].revoked_at = 0
            ELSE IF /\ attestations[h].status # "Revoked"
                    /\ attestations'[h].status = "Revoked"
                 THEN attestations'[h].revoked_at = clock
                 ELSE attestations'[h].revoked_at = attestations[h].revoked_at]_vars

C7_Witness ==
    /\ last.op = "update_status"
    /\ last.result = Ok
    /\ attestations[last.target].status = "Revoked"
    /\ attestations[last.target].revoked_at = clock
    /\ clock > 0

(* C8: Expired and Revoked are terminal: once a record's status is one of  *)
(* them, no call by any caller changes that status again.                  *)
C8_TerminalStatus ==
    [][\A h \in DOMAIN attestations :
          attestations[h].status \in {"Expired", "Revoked"} =>
              /\ Exists(h)'
              /\ attestations'[h].status = attestations[h].status]_vars

C8_Witness ==
    /\ last.op \in {"update_status", "revoke_attestation"}
    /\ last.result \in {"InvalidStatusTransition", "AttestationNotActive"}
    /\ Authorized(last.signer)
    /\ attestations[last.target].status = "Expired"

(* C9: after creation no operation changes a record's authority, wallets,  *)
(* jurisdiction, attestationType, taxYear, auditHash, issuedAt or          *)
(* expiresAt, and an operation on one record leaves every other record     *)
(* unchanged.                                                              *)
Immutable(att) ==
    [bump |-> att.bump, authority |-> att.authority,
     jurisdiction |-> att.jurisdiction,
     attestation_type |-> att.attestation_type, tax_year |-> att.tax_year,
     audit_hash |-> att.audit_hash, issued_at |-> att.issued_at,
     expires_at |-> att.expires_at, num_wallets |-> att.num_wallets,
     wallets |-> att.wallets]

C9_FrameOfRecords ==
    [][\A h \in DOMAIN attestations :
          /\ Exists(h)'
          /\ Immutable(attestations'[h]) = Immutable(attestations[h])
          /\ attestations'[h] # attestations[h] =>
                /\ last'.target = h
                /\ IsCall
                /\ \A g \in DOMAIN attestations' \ {h} :
                      Exists(g) /\ attestations'[g] = attestations[g]]_vars

C9_Witness ==
    /\ last.op = "update_status"
    /\ last.result = Ok
    /\ attestations[last.target].status = "Expired"
    /\ \E g \in DOMAIN attestations : g # last.target

(* C10: attestationCount is 0 after initialize, grows by exactly 1 on each *)
(* successful createAttestation, is unchanged by updateStatus,             *)
(* revokeAttestation and every failed call, equals the number of records   *)
(* in the store, and never decreases.                                      *)
C10_AttestationCount ==
    /\ [](IF HasState
          THEN ProgramState.attestation_count = Cardinality(DOMAIN attestations)
          ELSE DOMAIN attestations = {})
    /\ [][/\ (last'.op = "initialize" /\ last'.result = Ok /\ DoInitialize) =>
                 ProgramState'.attestation_count = 0
          /\ HasState =>
                 /\ HasState'
                 /\ ProgramState'.attestation_count =
                       IF /\ last'.op = "create_attestation"
                          /\ last'.result = Ok
                          /\ DoCreateAttestation
                       THEN ProgramState.attestation_count + 1
                       ELSE ProgramState.attestation_count]_vars

C10_Witness ==
    /\ last.op = "revoke_attestation"
    /\ last.result = Ok
    /\ ProgramState.attestation_count = 2
    /\ Cardinality(DOMAIN attestations) = 2

(* C11: initialize succeeds exactly once and fixes the authority to its    *)
(* caller; every later initialize, by any caller, fails and leaves         *)
(* authority and attestationCount as they were.                            *)
InitializedEvents ==
    {i \in 1..Len(events) : events[i].kind = "ProgramInitialized"}

C11_InitializeOnce ==
    /\ [](Cardinality(InitializedEvents) = (IF HasState THEN 1 ELSE 0))
    /\ [][(last'.op = "initialize" /\ initialize(last'.signer)) =>
             IF HasState
             THEN /\ last'.result # Ok
                  /\ state' = state
                  /\ UNCHANGED <<attestations, events>>
             ELSE /\ last'.result = Ok
                  /\ ProgramState'.authority = last'.signer
                  /\ ProgramState'.attestation_count = 0]_vars

C11_Witness ==
    /\ last.op = "initialize"
    /\ last.result = AccountAlreadyInUse
    /\ last.signer # ProgramState.authority
    /\ ProgramState.attestation_count > 0

(* C12: a createAttestation, updateStatus or revokeAttestation that fails  *)
(* with InvalidWalletCount, InvalidStatusTransition, AttestationNotActive  *)
(* or the duplicate-address error creates and modifies no record and       *)
(* leaves attestationCount unchanged; after a create rejected for its      *)
(* wallet count the address is still free, so that a later valid create    *)
(* with the same auditHash succeeds.                                       *)
RejectionErrors ==
    {"InvalidWalletCount", "InvalidStatusTransition", "AttestationNotActive",
     DuplicateRecord}

C12_AllOrNothing ==
    [][/\ (/\ last'.op \in {"create_attestation", "update_status",
                            "revoke_attestation"}
           /\ last'.result \in RejectionErrors
           /\ IsCall)
          => UNCHANGED <<state, attestations, events>>
       /\ (/\ last.op = "create_attestation"
           /\ last.result = "InvalidWalletCount"
           /\ last'.op = "create_attestation"
           /\ last'.target = last.target
           /\ Authorized(last'.signer)
           /\ \E in \in CreateInputs :
                 /\ ValidWalletCount(Len(in.wallets))
                 /\ create_attestation(last'.signer, in.class, last'.target,
                                       in.wallets))
          => /\ last'.result = Ok
             /\ last'.target \in DOMAIN attestations'
             /\ last'.target \notin DOMAIN attestations]_vars

C12_Witness ==
    /\ last.op = "create_attestation"
    /\ last.result = "InvalidWalletCount"
    /\ ~Exists(last.target)
    /\ ProgramState.attestation_count = 1

(* C13: nothing moves a record into Expired when the clock passes its      *)
(* expiresAt: it stays Active until an authorized updateStatus(Expired);   *)
(* updateStatus and revokeAttestation decide without looking at expiresAt, *)
(* no call fails with AttestationExpired, and createAttestation accepts    *)
(* an expiresAt that is already in the past.                               *)
ExpiryInputs == 0..(MaxClock + 1)

C13_ExpiryIsAdvisory ==
    /\ [](/\ last.result # "AttestationExpired"
          /\ \A st \in AttestationStatus, e \in ExpiryInputs :
               LET att == [SampleAttestation(st) EXCEPT !.expires_at = e] IN
               /\ revoke_attestation_body(att, clock).result =
                     (IF st = "Active" THEN Ok ELSE "AttestationNotActive")
               /\ \A to \in AttestationStatus :
                     update_status_body(att, to, clock).result =
                        (IF <<st, to>> \in ValidTransitions THEN Ok
                         ELSE "InvalidStatusTransition"))
    /\ [][/\ clock' # clock => attestations' = attestations
          /\ \A h \in DOMAIN attestations :
               (attestations[h].status = "Active"
                /\ attestations'[h].status = "Expired")
               => /\ last'.op = "update_status"
                  /\ last'.target = h
                  /\ Authorized(last'.signer)
                  /\ update_status(last'.signer, h, "Expired")
          /\ (/\ last'.op = "revoke_attestation"
              /\ Authorized(last'.signer)
              /\ Exists(last'.target)
              /\ attestations[last'.target].status = "Active"
              /\ revoke_attestation(last'.signer, last'.target))
             => last'.result = Ok
          /\ (/\ last'.op = "create_attestation"
              /\ Authorized(last'.signer)
              /\ ~Exists(last'.target)
              /\ create_attestation(last'.signer, ClassEU, last'.target,
                                    WalletsOfLen(MAX_WALLETS)))
             => last'.result = Ok]_vars

C13_Witness ==
    /\ last.op = "revoke_attestation"
    /\ last.result = Ok
    /\ attestations[last.target].expires_at < attestations[last.target].issued_at
    /\ attestations[last.target].expires_at < clock
    /\ attestations[last.target].revoked_at = clock

(* C14: the store rebuilt from the event log alone (every record's         *)
(* wallets, classification fields, status, issuedAt, expiresAt and         *)
(* revokedAt, and ProgramState's authority and attestationCount) equals    *)
(* the actual store, also after a revocation through                       *)
(* updateStatus(Revoked).                                                  *)
EmptyView == [state |-> <<>>, atts |-> <<>>]

ApplyEvent(view, e) ==
    CASE e.kind = "ProgramInitialized" ->
           [view EXCEPT !.state =
               (StateSeed :> [authority |-> e.authority,
                              attestation_count |-> 0])]
      [] e.kind = "AttestationCreated" ->
           [state |->
               [view.state EXCEPT ![StateSeed].attestation_count = @ + 1],
            atts |->
               [a \in DOMAIN view.atts \cup {e.attestation} |->
                   IF a # e.attestation THEN view.atts[a]
                   ELSE [wallets |-> e.wallets,
                         jurisdiction |-> e.jurisdiction,
                         attestation_type |-> e.attestation_type,
                         tax_year |-> e.tax_year,
                         audit_hash |-> e.audit_hash,
                         status |-> "Active",
                         issued_at |-> e.issued_at,
                         expires_at |-> e.expires_at,
                         revoked_at |-> 0]]]
      [] e.kind = "StatusUpdated" ->
           [view EXCEPT !.atts[e.attestation].status = e.new_status]
      [] e.kind = "AttestationRevoked" ->
           [view EXCEPT !.atts[e.attestation].status = "Revoked",
                        !.atts[e.attestation].revoked_at = e.revoked_at]

Replay(log) ==
    LET view[i \in 0..Len(log)] ==
            IF i = 0 THEN EmptyView ELSE ApplyEvent(view[i - 1], log[i])
    IN view[Len(log)]

StoreView ==
    [state |->
        IF HasState
        THEN (StateSeed :> [authority |-> ProgramState.authority,
                            attestation_count |-> ProgramState.attestation_count])
        ELSE <<>>,
     atts |->
        [a \in {AttestationPda(h) : h \in DOMAIN attestations} |->
            LET att == attestations[a[2]] IN
            [wallets |-> att.wallets,
             jurisdiction |-> att.jurisdiction,
             attestation_type |-> att.attestation_type,
             tax_year |-> att.tax_year,
             audit_hash |-> att.audit_hash,
             status |-> att.status,
             issued_at |-> att.issued_at,
             expires_at |-> att.expires_at,
             revoked_at |-> att.revoked_at]]]

C14_ReplayRebuildsStore == Replay(events) = StoreView

(* C15: the authorization check runs first: a call whose signer is not the *)
(* current authority fails with Unauthorized also when the wallet count is *)
(* invalid, when the requested transition is illegal, when the record is   *)
(* not Active, and when createAttestation targets an occupied address.     *)
C15_GateRunsFirst ==
    [][LET signer == last'.signer
           h == last'.target
       IN (/\ HasState
           /\ signer \in Keys
           /\ signer # ProgramState.authority
           /\ \/ /\ last'.op = "create_attestation"
                 /\ \E in \in CreateInputs :
                       /\ ~ValidWalletCount(Len(in.wallets)) \/ Exists(h)
                       /\ create_attestation(signer, in.class, h, in.wallets)
              \/ /\ last'.op = "update_status"
                 /\ Exists(h)
                 /\ \E to \in AttestationStatus :
                       /\ <<attestations[h].status, to>> \notin ValidTransitions
                       /\ update_status(signer, h, to)
              \/ /\ last'.op = "revoke_attestation"
                 /\ Exists(h)
                 /\ attestations[h].status # "Active"
                 /\ revoke_attestation(signer, h))
          => last'.result = "Unauthorized"]_vars

(* C16: createAttestation always stores status Active and no record ever   *)
(* has status Pending; a record's status history is Active, optionally     *)
(* followed by exactly one of Expired or Revoked.                          *)
StatusChanges(h) ==
    {i \in 1..Len(events) :
        /\ events[i].kind \in {"StatusUpdated", "AttestationRevoked"}
        /\ events[i].attestation = AttestationPda(h)}

C16_PendingUnreachable ==
    /\ [](\A h \in DOMAIN attestations :
            /\ attestations[h].status # "Pending"
            /\ Cardinality(StatusChanges(h)) =
                  (IF attestations[h].status = "Active" THEN 0 ELSE 1)
            /\ \A i \in StatusChanges(h) :
                  events[i].kind = "StatusUpdated" =>
                      /\ events[i].old_status = "Active"
                      /\ events[i].new_status = attestations[h].status)
    /\ [][\A h \in DOMAIN attestations' :
            IF ~Exists(h)
            THEN attestations'[h].status = "Active"
            ELSE \/ attestations'[h].status = attestations[h].status
                 \/ /\ attestations[h].status = "Active"
                    /\ attestations'[h].status \in {"Expired", "Revoked"}]_vars

C16_Witness ==
    /\ last.op = "update_status"
    /\ last.result = Ok
    /\ \E h \in DOMAIN attestations, g \in DOMAIN attestations :
          /\ attestations[h].status = "Expired"
          /\ attestations[g].status = "Revoked"

(* The instruction a committing transaction carries, executed in one step  *)
(* on the store as it is at the commit.                                    *)
AtomicStep(t) ==
    CASE t.op = "initialize" -> initialize(t.signer)
      [] t.op = "create_attestation" ->
           create_attestation(t.signer, t.arg.class, t.target, t.arg.wallets)
      [] t.op = "update_status" -> update_status(t.signer, t.target, t.arg)
      [] t.op = "revoke_attestation" -> revoke_attestation(t.signer, t.target)
      [] OTHER -> FALSE

(* C17: with transactions executing side by side under the account locks   *)
(* the instructions declare, every commit has exactly the effect of the    *)
(* same instruction run alone on the store at that moment, so the          *)
(* execution equals the serial one in commit order: of the mutations       *)
(* racing on one Active record exactly one succeeds (one status change per *)
(* record that left Active), attestation_count equals the number of        *)
(* creates that succeeded, and there is one record per audit_hash.         *)
C17_SerialEquivalence ==
    /\ [](/\ HasState =>
               ProgramState.attestation_count = Cardinality(DOMAIN attestations)
          /\ \A h \in Hashes :
                Cardinality(CreatedEvents(h)) = (IF Exists(h) THEN 1 ELSE 0)
          /\ \A h \in DOMAIN attestations :
                Cardinality(StatusChanges(h)) =
                    (IF attestations[h].status = "Active" THEN 0 ELSE 1))
    /\ [][\A s \in Slots :
            (inflight[s] # Idle /\ inflight'[s] = Idle) =>
                /\ AtomicStep(inflight[s])
                /\ last'.result = Ok]_vars

(* A revocation by the authority lost to an expiry of the same record and  *)
(* failed, while a transaction on another record was still executing.      *)
C17_Witness ==
    /\ last.op = "revoke_attestation"
    /\ last.result = "AttestationNotActive"
    /\ Authorized(last.signer)
    /\ attestations[last.target].status = "Expired"
    /\ \E s \in Slots :
          /\ inflight[s] # Idle
          /\ inflight[s].target # last.target
    /\ ProgramState.attestation_count = 2

(* C18: in every reachable state, whatever the clock returned, a record    *)
(* has revokedAt == 0 iff its status is not Revoked.                       *)
C18_RevokedAtZeroIffNotRevoked ==
    \A h \in DOMAIN attestations :
        (attestations[h].revoked_at = 0) <=> (attestations[h].status # "Revoked")

(* C19: ProgramState.authority never changes after initialize, every       *)
(* record's stored authority equals it, and no createAttestation,          *)
(* updateStatus or revokeAttestation succeeds before initialize has run.   *)
C19_SingleAuthority ==
    /\ [](\A h \in DOMAIN attestations :
            /\ HasState
            /\ attestations[h].authority = ProgramState.authority)
    /\ [][/\ HasState =>
                /\ HasState'
                /\ ProgramState'.authority = ProgramState.authority
          /\ (/\ last'.op \in {"create_attestation", "update_status",
                               "revoke_attestation"}
              /\ clock' = clock
              /\ IsCall)
             => IF HasState
                THEN last'.result = Ok => last'.signer = ProgramState.authority
                ELSE last'.result # Ok]_vars

C19_Witness ==
    /\ last.op = "revoke_attestation"
    /\ last.result = Ok
    /\ last.signer = "K2"
    /\ ProgramState.authority = "K2"
    /\ \A h \in DOMAIN attestations : attestations[h].authority = "K2"
    /\ Cardinality(DOMAIN attestations) = 2

(* C20: on an Active record, at the same clock value, revokeAttestation    *)
(* and updateStatus(Revoked) leave the store identical (status Revoked,    *)
(* revokedAt the clock value, all else and ProgramState unchanged); they   *)
(* differ only in the event: AttestationRevoked versus StatusUpdated.      *)
C20_RevokePathsAgree ==
    /\ [](\A h \in DOMAIN attestations :
            attestations[h].status = "Active" =>
                LET r == revoke_attestation_body(attestations[h], clock)
                    u == update_status_body(attestations[h], "Revoked", clock)
                IN /\ r.result = Ok /\ u.result = Ok
                   /\ r.attestation = u.attestation
                   /\ r.attestation =
                         [attestations[h] EXCEPT !.status = "Revoked",
                                                 !.revoked_at = clock]
                   /\ r.events[1].kind = "AttestationRevoked"
                   /\ u.events[1].kind = "StatusUpdated")
    /\ [][LET signer == last'.signer
              h == last'.target
          IN /\ (/\ last'.op = "revoke_attestation"
                 /\ last'.result = Ok
                 /\ revoke_attestation(signer, h))
                => /\ attestations' =
                         [attestations EXCEPT ![h] =
                             update_status_body(@, "Revoked", clock).attestation]
                   /\ state' = state
                   /\ events'[Len(events')].kind = "AttestationRevoked"
             /\ (/\ last'.op = "update_status"
                 /\ last'.result = Ok
                 /\ update_status(signer, h, "Revoked"))
                => /\ attestations' =
                         [attestations EXCEPT ![h] =
                             revoke_attestation_body(@, clock).attestation]
                   /\ state' = state
                   /\ events'[Len(events')].kind = "StatusUpdated"]_vars

C20_Witness ==
    /\ last.op = "update_status"
    /\ last.result = Ok
    /\ events[Len(events)].kind = "StatusUpdated"
    /\ events[Len(events)].new_status = "Revoked"
    /\ attestations[last.target].revoked_at = clock
    /\ attestations[last.target].issued_at < clock

====
